---- MODULE Spec2Model ----
(***************************************************************************)
(* The Wikipedia concept crawler of concept_collection_pipeline:           *)
(* concept_extraction.py (the crawl loop, its extractors, the heuristic    *)
(* classifier and the csv-backed incremental store).                       *)
(*                                                                         *)
(* Text is a TLA+ string; characters are read with SubSeq.  A pandas cell  *)
(* is <<s>> for the str s and <<>> for a missing value (NaN).  A csv file  *)
(* is what is on disk: a header and lines of text fields.                  *)
(***************************************************************************)
EXTENDS Integers, Sequences, FiniteSets, TLC

(* ------------------------------ bounds -------------------------------- *)

\* The iteration budget of the crawl loop.  The program sets 15000
\* (concept_extraction.py:344); the model explores a budget this small.
ITERATIONS == 3

\* The longest seed list read from data/start_urls.csv (the program reads
\* up to 200 rows).
MaxSeeds == 3

\* The largest number of calls the store harness (SpecStore) makes.
MaxCalls == 2

(* --------------------------- python strings --------------------------- *)

\* s[i] (1-based)
CharAt(s, i) == SubSeq(s, i, i)

\* needle in hay
Contains(hay, needle) ==
  \E i \in 0..(Len(hay) - Len(needle)) : SubSeq(hay, i + 1, i + Len(needle)) = needle

\* s.startswith(p)
StartsWith(s, p) == Len(s) >= Len(p) /\ SubSeq(s, 1, Len(p)) = p

\* s.endswith(p)
EndsWith(s, p) == Len(s) >= Len(p) /\ SubSeq(s, Len(s) - Len(p) + 1, Len(s)) = p

UPPER == <<"A","B","C","D","E","F","G","H","I","J","K","L","M",
           "N","O","P","Q","R","S","T","U","V","W","X","Y","Z","Ä","Ö","Ü">>
LOWER == <<"a","b","c","d","e","f","g","h","i","j","k","l","m",
           "n","o","p","q","r","s","t","u","v","w","x","y","z","ä","ö","ü">>
OTHER_LETTERS == {"ß", "á", "é", "í", "ó", "ú", "ñ"}
DIGITS == {"0","1","2","3","4","5","6","7","8","9"}
WHITESPACE == {" ", "\t", "\n"}

IsLetter(c) ==
  \/ \E k \in 1..Len(UPPER) : c = UPPER[k] \/ c = LOWER[k]
  \/ c \in OTHER_LETTERS

LowerChar(c) ==
  IF \E k \in 1..Len(UPPER) : c = UPPER[k]
  THEN LOWER[CHOOSE k \in 1..Len(UPPER) : c = UPPER[k]]
  ELSE c

RECURSIVE lower(_)
\* s.lower()
lower(s) == IF s = "" THEN "" ELSE LowerChar(CharAt(s, 1)) \o lower(SubSeq(s, 2, Len(s)))

\* s.isalpha(): at least one character, all of them letters
isalpha(s) == Len(s) > 0 /\ \A i \in 1..Len(s) : IsLetter(CharAt(s, i))

\* any(char.isdigit() for char in s)
HasDigit(s) == \E i \in 1..Len(s) : CharAt(s, i) \in DIGITS

RECURSIVE lstrip(_)
lstrip(s) == IF s # "" /\ CharAt(s, 1) \in WHITESPACE THEN lstrip(SubSeq(s, 2, Len(s))) ELSE s

RECURSIVE rstrip(_)
rstrip(s) ==
  IF s # "" /\ CharAt(s, Len(s)) \in WHITESPACE THEN rstrip(SubSeq(s, 1, Len(s) - 1)) ELSE s

\* s.strip()
strip(s) == rstrip(lstrip(s))

RECURSIVE split(_)
\* s.split(): the whitespace-separated words of s, in order
split(s) ==
  LET t == lstrip(s) IN
  IF t = "" THEN <<>>
  ELSE LET n == IF \E i \in 1..Len(t) : CharAt(t, i) \in WHITESPACE
                THEN (CHOOSE i \in 1..Len(t) :
                        /\ CharAt(t, i) \in WHITESPACE
                        /\ \A j \in 1..(i - 1) : CharAt(t, j) \notin WHITESPACE) - 1
                ELSE Len(t)
       IN <<SubSeq(t, 1, n)>> \o split(SubSeq(t, n + 1, Len(t)))

\* x in xs, for a list xs
InSeq(x, xs) == \E i \in 1..Len(xs) : xs[i] = x

RECURSIVE SeqFilterOut(_, _)
\* [x for x in xs if x not in banned]
SeqFilterOut(xs, banned) ==
  IF xs = <<>> THEN <<>>
  ELSE (IF InSeq(Head(xs), banned) THEN <<>> ELSE <<Head(xs)>>) \o SeqFilterOut(Tail(xs), banned)

RECURSIVE Dedup(_)
\* the elements of xs in order of first appearance, each once: what building a
\* python set (and listing it) keeps of xs
Dedup(xs) ==
  IF xs = <<>> THEN <<>>
  ELSE LET r == Dedup(SubSeq(xs, 1, Len(xs) - 1)) IN
       IF InSeq(xs[Len(xs)], r) THEN r ELSE Append(r, xs[Len(xs)])

(* ------------------------ pandas frames and csv ----------------------- *)

\* A missing value (NaN) and the str s, as cells of a frame.
NaN == <<>>
Str(s) == <<s>>

\* The field texts pandas.read_csv reads as a missing value (its default
\* na_values) among the fields the model writes.
NA_VALUES == {"", "nan", "null", "NaN", "NA", "NULL", "None", "n/a", "N/A", "<NA>", "#N/A"}

\* A csv file that does not exist.
NoFile == [exists |-> FALSE, header |-> <<>>, lines |-> <<>>]

\* A csv file on disk: the header line and the data lines, as text fields.
CsvFile(header, lines) == [exists |-> TRUE, header |-> header, lines |-> lines]

\* pd.DataFrame: the column labels in order, the row labels in order, and
\* for each row position the cell of every column.
DataFrame(columns, index, rows) == [columns |-> columns, index |-> index, rows |-> rows]

\* range(n), the default row labels of a new frame
RangeIndex(n) == [i \in 1..n |-> i - 1]

ColSet(df) == {df.columns[j] : j \in 1..Len(df.columns)}

\* pd.DataFrame({column: values}): one str column
OneColumnFrame(column, values) ==
  DataFrame(<<column>>, RangeIndex(Len(values)),
            [i \in 1..Len(values) |-> [c \in {column} |-> Str(values[i])]])

\* What read_csv makes of one text field.
ReadCell(field) == IF field \in NA_VALUES THEN NaN ELSE Str(field)

\* What to_csv writes for one cell (na_rep = "").
WriteCell(cell) == IF cell = NaN THEN "" ELSE cell[1]

\* pd.read_csv(path) of an existing file
read_csv(file) ==
  DataFrame(file.header, RangeIndex(Len(file.lines)),
            [i \in 1..Len(file.lines) |->
               [c \in {file.header[j] : j \in 1..Len(file.header)} |->
                  ReadCell(file.lines[i][CHOOSE j \in 1..Len(file.header) : file.header[j] = c])]])

\* df.to_csv(path, index=False)
to_csv(df) ==
  CsvFile(df.columns,
          [i \in 1..Len(df.rows) |->
             [j \in 1..Len(df.columns) |-> WriteCell(df.rows[i][df.columns[j]])]])

\* pd.concat that keeps only the columns of df1 (the further columns of df2
\* are dropped).
pd_concat_OldColumns(df1, df2) ==
  LET widen(df, i) == [c \in ColSet(df1) |-> IF c \in ColSet(df) THEN df.rows[i][c] ELSE NaN]
  IN DataFrame(df1.columns, df1.index \o df2.index,
               [i \in 1..Len(df1.rows) |-> widen(df1, i)]
                 \o [i \in 1..Len(df2.rows) |-> widen(df2, i)])

\* pd.concat([df1, df2]): the rows of df1 then those of df2, each keeping its
\* row label; the columns of df1 then the further columns of df2; a cell of
\* a column its frame lacks is missing.
pd_concat(df1, df2) ==
  LET columns == df1.columns \o SeqFilterOut(df2.columns, df1.columns)
      cs == {columns[j] : j \in 1..Len(columns)}
      widen(df, i) == [c \in cs |-> IF c \in ColSet(df) THEN df.rows[i][c] ELSE NaN]
  IN DataFrame(columns, df1.index \o df2.index,
               [i \in 1..Len(df1.rows) |-> widen(df1, i)]
                 \o [i \in 1..Len(df2.rows) |-> widen(df2, i)])

\* The cells of row i in the columns of subset, as drop_duplicates compares
\* them (two missing values are equal, a missing value and "" are not).
Key(df, i, subset) == [j \in 1..Len(subset) |-> df.rows[i][subset[j]]]

RECURSIVE KeptPositions(_, _, _)
\* The positions drop_duplicates keeps among the first n rows: the first row
\* of every key.
KeptPositions(df, n, subset) ==
  IF n = 0 THEN <<>>
  ELSE LET before == KeptPositions(df, n - 1, subset) IN
       IF \E k \in 1..Len(before) : Key(df, before[k], subset) = Key(df, n, subset)
       THEN before ELSE Append(before, n)

\* df.drop_duplicates(subset=subset)
drop_duplicates(df, subset) ==
  LET keep == KeptPositions(df, Len(df.rows), subset) IN
  DataFrame(df.columns, [k \in 1..Len(keep) |-> df.index[keep[k]]],
            [k \in 1..Len(keep) |-> df.rows[keep[k]]])

\* concat_and_filter_unique_values(df1, df2)
concat_and_filter_unique_values(df1, df2) ==
  LET combined_df == pd_concat(df1, df2) IN drop_duplicates(combined_df, df1.columns)

\* overwrite_file(filename, new_contents) with file_type "csv" and a frame as
\* new_contents: the file afterwards and the exception raised ("" for none).
\* pd.read_csv raises FileNotFoundError for a missing file and never
\* returns None, so the branch of line 48 is never taken.
overwrite_file(file, new_contents) ==
  IF ~file.exists
  THEN [file |-> file, error |-> "FileNotFoundError"]
  ELSE LET old_contents == read_csv(file)
           merged_contents == concat_and_filter_unique_values(old_contents, new_contents)
       IN [file |-> to_csv(merged_contents), error |-> ""]

(* --------------------------- reference sets --------------------------- *)

\* The names get_data_from_db loads from data/name_db.csv and
\* data/GeoNames_DB.csv (lower-case names, one per row).
PERSON_DB == <<"leonardo da vinci", "ludwig">>
LOCATION_DB == <<"new york", "munich">>

\* all(word in caption_words for word in name_words)
AllWordsIn(name_words, caption_words) ==
  \A k \in 1..Len(name_words) : InSeq(name_words[k], caption_words)

contains_person_name(caption) ==
  LET caption_words == split(caption) IN
  \E n \in 1..Len(PERSON_DB) : AllWordsIn(split(PERSON_DB[n]), caption_words)

contains_location(caption) ==
  LET caption_words == split(caption) IN
  \E n \in 1..Len(LOCATION_DB) : AllWordsIn(split(LOCATION_DB[n]), caption_words)

\* remove_people_and_locations_from_concepts(concepts): the rows whose concept
\* is no location (the test of person names is commented out, line 275).
\* Nothing in the crawl module calls it.
remove_people_and_locations_from_concepts(concepts) ==
  LET pos == SeqFilterOut([r \in 1..Len(concepts.rows) |->
                             IF contains_location(concepts.rows[r]["concepts"][1])
                             THEN 0 ELSE r], <<0>>)
  IN DataFrame(concepts.columns, [k \in 1..Len(pos) |-> concepts.index[pos[k]]],
               [k \in 1..Len(pos) |-> concepts.rows[pos[k]]])

\* contains_location(caption) of concept_filtering.py, the offline stage.
filtering_contains_location(caption) ==
  LET caption_words == split(caption) IN
  \E n \in 1..Len(LOCATION_DB) : AllWordsIn(split(LOCATION_DB[n]), caption_words)

\* contains_person_name(caption) of concept_filtering.py, the offline stage:
\*   for subname in name_words: if subname in caption_words: return True
filtering_contains_person_name(caption) ==
  LET caption_words == split(caption) IN
  \E n \in 1..Len(PERSON_DB) :
    \E k \in 1..Len(split(PERSON_DB[n])) : InSeq(split(PERSON_DB[n])[k], caption_words)

(* ------------------------------ lexicons ------------------------------ *)

\* CULTURES and SEMANTIC_FIELDS in the iteration order of the python dicts
\* (a key written twice keeps its first place and its last value).  A Chinese
\* or Korean character is written {code point}, here and in every text.
CULTURES ==
  <<
    <<"german", "german">>, <<"germany", "german">>, <<"spanish", "spanish">>,
    <<"spain", "spanish">>, <<"chinese", "chinese">>, <<"china", "chinese">>,
    <<"korean", "korean">>, <<"korea", "korean">>, <<"deutsch", "german">>,
    <<"deutschland", "german">>, <<"spanisch", "spanish">>, <<"spanien", "spanish">>,
    <<"chinesisch", "chinese">>, <<"koreanisch", "korean">>, <<"alemán", "german">>,
    <<"alemania", "german">>, <<"español", "spanish">>, <<"españa", "spanish">>,
    <<"chino", "chinese">>, <<"coreano", "korean">>, <<"{5fb7}{8bed}", "german">>, <<"{5fb7}{56fd}", "german">>,
    <<"{897f}{73ed}{7259}", "spanish">>, <<"{4e2d}{6587}", "chinese">>, <<"{4e2d}{56fd}", "chinese">>, <<"{6c49}{8bed}", "chinese">>,
    <<"{97e9}{8bed}", "korean">>, <<"{97e9}{56fd}", "korean">>, <<"andalusia", "spanish">>, <<"aragon", "spanish">>,
    <<"asturias", "spanish">>, <<"balearic islands", "spanish">>, <<"basque country", "spanish">>,
    <<"canary islands", "spanish">>, <<"cantabria", "spanish">>, <<"castile and león", "spanish">>,
    <<"castilla-la mancha", "spanish">>, <<"catalonia", "spanish">>, <<"extremadura", "spanish">>,
    <<"galicia", "spanish">>, <<"la rioja", "spanish">>, <<"madrid", "spanish">>,
    <<"murcia", "spanish">>, <<"navarre", "spanish">>, <<"baden-württemberg", "german">>,
    <<"bavaria", "german">>, <<"berlin", "german">>, <<"brandenburg", "german">>,
    <<"bremen", "german">>, <<"hamburg", "german">>, <<"hesse", "german">>,
    <<"lower saxony", "german">>, <<"mecklenburg-vorpommern", "german">>,
    <<"north rhine-westphalia", "german">>, <<"rhineland-palatinate", "german">>,
    <<"saarland", "german">>, <<"saxony", "german">>, <<"saxony-anhalt", "german">>,
    <<"schleswig-holstein", "german">>, <<"thuringia", "german">>, <<"hebei", "chinese">>,
    <<"shanxi", "chinese">>, <<"liaoning", "chinese">>, <<"jilin", "chinese">>,
    <<"heilongjiang", "chinese">>, <<"jiangsu", "chinese">>, <<"zhejiang", "chinese">>,
    <<"anhui", "chinese">>, <<"fujian", "chinese">>, <<"jiangxi", "chinese">>,
    <<"shangdong", "chinese">>, <<"henan", "chinese">>, <<"hunan", "chinese">>,
    <<"guangdong", "chinese">>, <<"hainan", "chinese">>, <<"sichuan", "chinese">>,
    <<"guizhuo", "chinese">>, <<"yunnan", "chinese">>, <<"gansu", "chinese">>,
    <<"qinghai", "chinese">>, <<"chungcheong", "korean">>, <<"gangwon", "korean">>,
    <<"gyeonggi", "korean">>, <<"gyeongsang", "korean">>, <<"jeonbuk", "korean">>,
    <<"jeolla", "korean">>, <<"jeju", "korean">>
  >>

SEMANTIC_FIELDS ==
  <<
    <<"beverage", "beverages">>, <<"alcohol", "beverages">>, <<"beer", "beverages">>,
    <<"wine", "beverages">>, <<"celebration", "celebration">>, <<"dish", "food">>,
    <<"cuisine", "food">>, <<"food", "food">>, <<"clothing", "clothing">>, <<"fruit", "fruit">>,
    <<"houses", "houses">>, <<"instrument", "music">>, <<"religion", "religion">>,
    <<"sport", "sport">>, <<"utensil", "utensil">>, <<"tool", "utensil">>,
    <<"vegetable", "vegetable">>, <<"visual arts", "visual arts">>, <<"getränk", "beverages">>,
    <<"feier", "celebration">>, <<"essen", "food">>, <<"kleidung", "clothing">>,
    <<"obst", "fruit">>, <<"haus", "houses">>, <<"häuser", "houses">>, <<"werkzeug", "utensil">>,
    <<"gemüse", "vegetable">>, <<"bildende kunst", "visual arts">>, <<"bebida", "beverages">>,
    <<"celebración", "celebration">>, <<"cocina", "food">>, <<"comida", "food">>,
    <<"ropa", "clothing">>, <<"fruta", "fruit">>, <<"casa", "houses">>, <<"instrumento", "music">>,
    <<"religión", "religion">>, <<"deporte", "sport">>, <<"utensilio", "utensil">>,
    <<"herramienta", "utensil">>, <<"verdura", "vegetable">>, <<"artes visuales", "visual arts">>,
    <<"{996e}{6599}", "beverages">>, <<"{5e86}{795d}", "celebration">>, <<"{98df}{7269}", "food">>, <<"{8863}{670d}", "clothing">>,
    <<"{6c34}{679c}", "fruit">>, <<"{623f}{5b50}", "houses">>, <<"{4e50}{5668}", "music">>, <<"{5b97}{6559}", "religion">>,
    <<"{8fd0}{52a8}", "sport">>, <<"{5668}{5177}", "utensil">>, <<"{5de5}{5177}", "utensil">>, <<"{852c}{83dc}", "vegetable">>,
    <<"{89c6}{89c9}{827a}{672f}", "visual arts">>, <<"{c74c}{b8cc}", "beverages">>, <<"{cd95}{d558} ", "food">>, <<"{c637}", "clothing">>,
    <<"{acfc}{c77c}", "fruit">>, <<"{c9d1}", "houses">>, <<"{c545}{ae30}", "music">>, <<"{c885}{ad50}", "religion">>,
    <<"{c2a4}{d3ec}{ce20}", "sport">>, <<"{b3c4}{ad6c}", "utensil">>, <<"{cc44}{c18c}", "vegetable">>, <<"{c2dc}{ac01} {c608}{c220}", "visual arts">>
  >>

\* The label of the first keyword of lexicon that occurs in text, default if
\* none does:  for keyword in lexicon.keys(): if keyword in text: ...; break
FirstMatch(lexicon, text, default) ==
  IF \E k \in 1..Len(lexicon) : Contains(text, lexicon[k][1])
  THEN lexicon[CHOOSE k \in 1..Len(lexicon) :
                 /\ Contains(text, lexicon[k][1])
                 /\ \A j \in 1..(k - 1) : ~Contains(text, lexicon[j][1])][2]
  ELSE default

\* get_default_culture_and_semantic_field with labels that start as "unknown"
\* instead of "".
get_default_culture_and_semantic_field_Unknown(title) ==
  <<FirstMatch(CULTURES, title, "unknown"), FirstMatch(SEMANTIC_FIELDS, title, "unknown")>>

\* get_default_culture_and_semantic_field(title): <<culture, semantic_field>>
get_default_culture_and_semantic_field(title) ==
  <<FirstMatch(CULTURES, title, ""), FirstMatch(SEMANTIC_FIELDS, title, "")>>

(* ------------------------------ documents ----------------------------- *)

\* A parsed page, as far as the extractors read it:
\*   title       text of #firstHeading
\*   interlang   the li.interlanguage-link > a elements: lang and href
\*   figures     the figure elements of bodyContent: whether one holds an
\*               img, its src, the text of the figcaption
\*   imgs        the img elements of bodyContent: src and alt (<<>> if none)
\*   anchors     the a elements of bodyContent in document order: href and
\*               title (<<>> for an attribute the element lacks)
\*   ref_id      the id of the page's reference-section element ("" if none)
\*   ref_pos     the position in anchors of the first a after that element
\*   italics     the texts of the i elements
\*   paragraphs  the texts of the p elements
None == <<>>

Page(title, interlang, figures, imgs, anchors, ref_id, ref_pos, italics, paragraphs) ==
  [title |-> title, interlang |-> interlang, figures |-> figures, imgs |-> imgs,
   anchors |-> anchors, ref_id |-> ref_id, ref_pos |-> ref_pos, italics |-> italics,
   paragraphs |-> paragraphs]

A(href, title) == [href |-> href, title |-> title]

\* The web the model crawls: four pages, served by url.
URL_OKTOBERFEST == "https://en.wikipedia.org/wiki/Oktoberfest"
URL_GERMAN_CUISINE == "https://en.wikipedia.org/wiki/German_cuisine"
URL_SAKURA == "https://en.wikipedia.org/wiki/Sakura"
URL_DEUTSCHE_KUECHE == "https://de.wikipedia.org/wiki/Deutsche_Küche"

PAGE_OKTOBERFEST ==
  Page("Oktoberfest",
       <<[lang |-> "de", href |-> "https://de.wikipedia.org/wiki/Oktoberfest"]>>,
       <<[img |-> TRUE, src |-> "//upload.wikimedia.org/tent.jpg", caption |-> " Beer tent 2010 "]>>,
       <<[src |-> "//upload.wikimedia.org/tent.jpg", alt |-> None],
         [src |-> "//upload.wikimedia.org/ludwig.jpg", alt |-> Str("Ludwig")]>>,
       <<A(Str("/wiki/Bier"), Str("Bier")),
         A(Str("/wiki/Oktoberfest"), Str("Oktoberfest")),
         A(Str("/wiki/ISBN_(identifier)"), Str("ISBN (identifier)")),
         A(Str("/wiki/Munich"), Str("Munich"))>>,
       "References", 4,
       <<" Wiesn ", "a">>,
       <<"The Wiesn is a fair.", "In Germany bier means beer.">>)

PAGE_GERMAN_CUISINE ==
  Page("German cuisine",
       <<[lang |-> "de", href |-> URL_DEUTSCHE_KUECHE]>>,
       <<>>,
       <<>>,
       <<A(Str("/wiki/Bier"), Str("Bier")),
         A(Str("/wiki/Help:Contents"), Str("Help")),
         A(Str("#cite_note-1"), None)>>,
       "", 0,
       <<"Munich", "Ludwig">>,
       <<"Regional dishes vary.">>)

PAGE_SAKURA ==
  Page("Sakura",
       <<>>,
       <<>>,
       <<[src |-> "//upload.wikimedia.org/sakura.gif", alt |-> Str("Sakura")]>>,
       <<>>,
       "", 0,
       <<"Sakura", "Sakura">>,
       <<>>)

PAGE_DEUTSCHE_KUECHE ==
  Page("Deutsche Küche",
       <<[lang |-> "en", href |-> URL_GERMAN_CUISINE]>>,
       <<>>,
       <<>>,
       <<A(Str("/wiki/Sauerkraut"), Str("Sauerkraut")),
         A(Str("/wiki/Bier"), Str("Bier"))>>,
       "Weblinks", 2,
       <<>>,
       <<>>)

URLS == {URL_OKTOBERFEST, URL_GERMAN_CUISINE, URL_SAKURA, URL_DEUTSCHE_KUECHE}

\* The page a url serves.
Web(url) ==
  CASE url = URL_OKTOBERFEST -> PAGE_OKTOBERFEST
    [] url = URL_GERMAN_CUISINE -> PAGE_GERMAN_CUISINE
    [] url = URL_SAKURA -> PAGE_SAKURA
    [] url = URL_DEUTSCHE_KUECHE -> PAGE_DEUTSCHE_KUECHE

(* ----------------------------- extractors ----------------------------- *)

\* All orders in which list(a_set) may list the elements of xs (xs holds
\* each element once).
ListOrders(xs) ==
  {ys \in [1..Len(xs) -> {xs[k] : k \in 1..Len(xs)}] :
     \A k \in 1..Len(xs) : InSeq(xs[k], ys)}

RECURSIVE ItalicPhrases(_)
\* The phrases get_all_italic_words adds to italic_words, in document order.
ItalicPhrases(tags) ==
  IF tags = <<>> THEN <<>>
  ELSE LET italic_phrase == strip(Head(tags)) IN
       (IF isalpha(italic_phrase) /\ Len(italic_phrase) > 1
        THEN <<lower(italic_phrase)>> ELSE <<>>) \o ItalicPhrases(Tail(tags))

\* get_all_italic_words(soup_content): the set italic_words, each word once
get_all_italic_words(doc) == Dedup(ItalicPhrases(doc.italics))

IsImageFile(src) == EndsWith(src, "jpg") \/ EndsWith(src, "jpeg") \/ EndsWith(src, "gif")

\* Whether a caption passes the filter of lines 162 and 176.
CaptionKept(caption) == HasDigit(caption) \/ ~contains_person_name(caption)

RECURSIVE FigureImages(_)
\* The first loop of get_captioned_images: <<img_source, img_caption>> pairs
FigureImages(figures) ==
  IF figures = <<>> THEN <<>>
  ELSE LET fig == Head(figures)
           img_caption == lower(strip(fig.caption))
       IN (IF fig.img /\ CaptionKept(img_caption) /\ IsImageFile(fig.src)
           THEN <<<<fig.src, img_caption>>>> ELSE <<>>) \o FigureImages(Tail(figures))

RECURSIVE AltImages(_, _)
\* The second loop of get_captioned_images, continuing the pairs of acc.
AltImages(imgs, acc) ==
  IF imgs = <<>> THEN acc
  ELSE LET img == Head(imgs)
           img_title == lower(strip(img.alt[1]))
           taken == \E k \in 1..Len(acc) : acc[k][1] = img.src
       IN AltImages(Tail(imgs),
                    IF /\ ~taken
                       /\ IsImageFile(img.src)
                       /\ img.alt # None
                       /\ img.alt # Str("")
                       /\ CaptionKept(img_title)
                    THEN Append(acc, <<img.src, img_title>>) ELSE acc)

\* get_captioned_images(soup_content): the frame of img_source and img_captions
get_captioned_images(doc) ==
  LET pairs == AltImages(doc.imgs, FigureImages(doc.figures)) IN
  DataFrame(<<"img_source", "img_captions">>, RangeIndex(Len(pairs)),
            [k \in 1..Len(pairs) |->
               [c \in {"img_source", "img_captions"} |->
                  IF c = "img_source" THEN Str(pairs[k][1]) ELSE Str(pairs[k][2])]])

\* current_url.split('//')[1][:2]
LanguageCode(current_url) ==
  LET first == CHOOSE p \in 1..Len(current_url) :
                 /\ SubSeq(current_url, p, p + 1) = "//"
                 /\ \A q \in 1..(p - 1) : SubSeq(current_url, q, q + 1) # "//"
      rest == SubSeq(current_url, first + 2, Len(current_url))
  IN SubSeq(rest, 1, IF Len(rest) < 2 THEN Len(rest) ELSE 2)

\* The reference-section id of a language code ("" for a code not in the table).
ReferenceId(language_code) ==
  CASE language_code = "en" -> "References"
    [] language_code = "es" -> "Referencias"
    [] language_code = "de" -> "Weblinks"
    [] language_code = "zh" -> "{53c3}{8003}{4f86}{6e90}"
    [] language_code = "ko" -> "{cc38}{ace0} {bb38}{d5cc}"
    [] OTHER -> ""

\* Whether a link's href is kept (line 209).
IsContentLink(href) ==
  /\ href # None
  /\ StartsWith(href[1], "/wiki/")
  /\ ~Contains(href[1], ":")
  /\ ~Contains(href[1], "(identifier)")

\* The number of links the loop of lines 204-212 handles before its break.
LinksBeforeBreak(doc, id) ==
  IF doc.ref_id # "" /\ doc.ref_id = id
  THEN (CHOOSE p \in 1..Len(doc.anchors) :
          /\ doc.anchors[p].href = doc.anchors[doc.ref_pos].href
          /\ \A q \in 1..(p - 1) : doc.anchors[q].href # doc.anchors[doc.ref_pos].href) - 1
  ELSE Len(doc.anchors)

RECURSIVE LinkUrls(_, _)
LinkUrls(anchors, n) ==
  IF n = 0 THEN <<>>
  ELSE LinkUrls(anchors, n - 1)
         \o (IF IsContentLink(anchors[n].href) THEN <<anchors[n].href[1]>> ELSE <<>>)

RECURSIVE LinkConcepts(_, _)
LinkConcepts(anchors, n) ==
  IF n = 0 THEN <<>>
  ELSE LinkConcepts(anchors, n - 1)
         \o (IF /\ IsContentLink(anchors[n].href)
                /\ isalpha(anchors[n].title[1])
                /\ Len(anchors[n].title[1]) > 1
             THEN <<lower(anchors[n].title[1])>> ELSE <<>>)

\* extract_link_concepts_and_urls(soup_content, current_url): the sets
\* scraped_urls and url_concepts (each element once), and the exception raised
\* ("" for none): a kept link without a title attribute raises at line 210.
extract_link_concepts_and_urls(doc, current_url) ==
  LET id == ReferenceId(LanguageCode(current_url))
      n == LinksBeforeBreak(doc, id)
  IN IF id = ""
     THEN [urls |-> <<>>, concepts |-> <<>>, error |-> ""]
     ELSE IF \E k \in 1..n : IsContentLink(doc.anchors[k].href) /\ doc.anchors[k].title = None
     THEN [urls |-> <<>>, concepts |-> <<>>, error |-> "AttributeError"]
     ELSE [urls |-> Dedup(LinkUrls(doc.anchors, n)),
           concepts |-> Dedup(LinkConcepts(doc.anchors, n)),
           error |-> ""]

(* ----------------------------- classifier ----------------------------- *)

\* df[column] = value: a column holding value in every row (added last if new)
WithColumn(df, column, value) ==
  DataFrame(IF InSeq(column, df.columns) THEN df.columns ELSE Append(df.columns, column),
            df.index,
            [r \in 1..Len(df.rows) |->
               [c \in ColSet(df) \cup {column} |-> IF c = column THEN value ELSE df.rows[r][c]]])

\* df.at[label, column] = value.  Row labels repeat after pd.concat, and .at
\* then sets the cell of every row that carries the label.
SetAt(df, label, column, value) ==
  [df EXCEPT !.rows =
     [r \in 1..Len(df.rows) |->
        IF df.index[r] = label THEN [df.rows[r] EXCEPT ![column] = value] ELSE df.rows[r]]]

\* df.at[label, column] += suffix
AddAt(df, label, column, suffix) ==
  [df EXCEPT !.rows =
     [r \in 1..Len(df.rows) |->
        IF df.index[r] = label
        THEN [df.rows[r] EXCEPT ![column] = Str(df.rows[r][column][1] \o suffix)]
        ELSE df.rows[r]]]

RECURSIVE ParagraphLoop(_, _, _, _)
\* The loops of find_paragraphs_for_concepts, after k of their steps (row by
\* row, each row against every paragraph).  live tells whether the row that
\* iterrows yields shows the writes made through .at (it is a view of the
\* frame's data in some pandas builds and a copy in others); a copy keeps
\* the "" the column started with.
ParagraphLoop(df, paragraphs, k, live) ==
  IF k = 0 THEN df
  ELSE LET before == ParagraphLoop(df, paragraphs, k - 1, live)
           r == ((k - 1) \div Len(paragraphs)) + 1
           para_text == lower(paragraphs[((k - 1) % Len(paragraphs)) + 1])
           seen == IF live THEN before.rows[r]["information"] ELSE Str("")
       IN IF ~Contains(para_text, df.rows[r]["concepts"][1]) THEN before
          ELSE IF seen = Str("")
          THEN SetAt(before, df.index[r], "information", Str(para_text))
          ELSE AddAt(before, df.index[r], "information", ", " \o para_text)

\* find_paragraphs_for_concepts(soup, concepts)
find_paragraphs_for_concepts(doc, concepts, live) ==
  ParagraphLoop(WithColumn(concepts, "information", Str("")), doc.paragraphs,
                Len(concepts.rows) * Len(doc.paragraphs), live)

RECURSIVE LabelLoop(_, _, _, _, _)
\* One loop of assign_culture_and_semantic_fields_to_concepts over the first n
\* rows: the row's information decides the label written at the row's label.
LabelLoop(df, information, n, column, lexicon) ==
  IF n = 0 THEN df
  ELSE LET before == LabelLoop(df, information, n - 1, column, lexicon)
           found == FirstMatch(lexicon, information[n], "")
       IN IF \E k \in 1..Len(lexicon) : Contains(information[n], lexicon[k][1])
          THEN SetAt(before, df.index[n], column, Str(found))
          ELSE before

\* concepts.drop(column, axis=1)
DropColumn(df, column) ==
  DataFrame(SeqFilterOut(df.columns, <<column>>), df.index,
            [r \in 1..Len(df.rows) |-> [c \in ColSet(df) \ {column} |-> df.rows[r][c]]])

\* assign_culture_and_semantic_fields_to_concepts(concepts)
assign_culture_and_semantic_fields_to_concepts(concepts) ==
  LET information == [r \in 1..Len(concepts.rows) |-> concepts.rows[r]["information"][1]]
      cultures == LabelLoop(concepts, information, Len(concepts.rows), "culture", CULTURES)
      fields == LabelLoop(cultures, information, Len(concepts.rows), "semantic_field",
                          SEMANTIC_FIELDS)
  IN DropColumn(fields, "information")

(* ------------------------------ frontier ------------------------------ *)

\* language_prefixes of append_multilingual_url ("" for no entry)
LanguagePrefix(default_culture) ==
  CASE default_culture = "korean" -> "ko"
    [] default_culture = "chinese" -> "zh"
    [] default_culture = "spanish" -> "es"
    [] default_culture = "german" -> "de"
    [] OTHER -> ""

\* lang_dict[lang]: the href of the last interlanguage link of that language
LangDict(doc, lang) ==
  doc.interlang[CHOOSE k \in 1..Len(doc.interlang) :
                  /\ doc.interlang[k].lang = lang
                  /\ \A j \in (k + 1)..Len(doc.interlang) : doc.interlang[j].lang # lang].href

InLangDict(doc, lang) == \E k \in 1..Len(doc.interlang) : doc.interlang[k].lang = lang

\* append_multilingual_url without the test of line 296.
append_multilingual_url_Unchecked(doc, default_culture, queue, visited) ==
  IF LanguagePrefix(default_culture) # "" /\ InLangDict(doc, LanguagePrefix(default_culture))
  THEN Append(queue, LangDict(doc, LanguagePrefix(default_culture)))
  ELSE queue

\* append_multilingual_url(default_culture, next_urls, visited_urls): next_urls
\* afterwards
append_multilingual_url(doc, default_culture, queue, visited) ==
  IF LanguagePrefix(default_culture) # "" /\ InLangDict(doc, LanguagePrefix(default_culture))
  THEN LET new_link == LangDict(doc, LanguagePrefix(default_culture)) IN
       IF ~InSeq(new_link, visited) THEN Append(queue, new_link) ELSE queue
  ELSE queue

\* select_next_urls_to_jump_to(): its first statement calls pd.read_csv_file,
\* which pandas does not have, so the call raises AttributeError before it
\* reads or writes anything; lines 306-315 never run.
select_next_urls_to_jump_to(file, visited) ==
  [next_urls |-> <<>>, file |-> file, error |-> "AttributeError"]

\* df[~df["urls"].isin(values)]
NotIsin(df, values) ==
  LET pos == SeqFilterOut([r \in 1..Len(df.rows) |->
                             IF InSeq(df.rows[r]["urls"][1], values) THEN 0 ELSE r], <<0>>)
  IN DataFrame(df.columns, [k \in 1..Len(pos) |-> df.index[pos[k]]],
               [k \in 1..Len(pos) |-> df.rows[pos[k]]])

(* ------------------------------- state -------------------------------- *)

VARIABLES
  next_urls,       \* the active queue (list of urls)
  visited_urls,    \* the urls fetched so far in this run (list)
  all_urls_file,   \* output/all_urls.csv, the overflow queue
  images_file,     \* output/images.csv
  concept_file,    \* output/concept_candidates.csv
  i,               \* the number of completed loop iterations
  status,          \* "running", "done" (loop ended) or "raised" (uncaught exception)
  error,           \* the exception that ended the run ("" for none)
  log              \* the calls made by the function harnesses (SpecStore, SpecNames)

vars == <<next_urls, visited_urls, all_urls_file, images_file, concept_file, i, status,
          error, log>>

IMAGE_COLUMNS == <<"img_source", "img_captions", "culture", "semantic_field">>
CONCEPT_COLUMNS == <<"concepts", "culture", "semantic_field">>

\* The seed lists: data/start_urls.csv holds up to MaxSeeds different urls in
\* its column "urls"; random.shuffle leaves them in any order.
SeedLists ==
  UNION {{s \in [1..n -> URLS] : \A a, b \in 1..n : a # b => s[a] # s[b]} : n \in 0..MaxSeeds}

\* What the output directory may hold when a run starts: nothing, the empty
\* table, or the table an earlier run left.
InitialImageFiles == {NoFile, CsvFile(IMAGE_COLUMNS, <<>>)}
InitialConceptFiles ==
  {NoFile, CsvFile(CONCEPT_COLUMNS, <<>>), CsvFile(CONCEPT_COLUMNS, <<<<"sakura", "", "">>>>)}

\* Lines 346-351.
Init ==
  /\ next_urls \in SeedLists
  /\ visited_urls = <<>>
  /\ all_urls_file = to_csv(DataFrame(<<"urls">>, <<>>, <<>>))
  /\ images_file \in InitialImageFiles
  /\ concept_file \in InitialConceptFiles
  /\ i = 0
  /\ status = "running"
  /\ error = ""
  /\ log = <<>>

\* An uncaught exception ends the run where it is raised.
Raise(exception) ==
  /\ status' = "raised"
  /\ error' = exception
  /\ i' = i

\* Lines 386-391 and the loop header: drop the head of the queue, refill an
\* empty queue, count the iteration.
EndOfIteration(queue) ==
  LET rest == Tail(queue)
      refill == select_next_urls_to_jump_to(all_urls_file', visited_urls')
  IN IF rest # <<>>
     THEN /\ next_urls' = rest
          /\ i' = i + 1
          /\ status' = IF i + 1 = ITERATIONS THEN "done" ELSE "running"
          /\ error' = ""
     ELSE IF refill.error # ""
     THEN /\ next_urls' = rest
          /\ Raise(refill.error)
     ELSE /\ next_urls' = refill.next_urls
          /\ i' = i + 1
          /\ status' = IF i + 1 = ITERATIONS THEN "done" ELSE "running"
          /\ error' = ""

\* Line 354 with an empty queue: next_urls[0] raises IndexError.
QueueEmpty ==
  /\ status = "running"
  /\ next_urls = <<>>
  /\ Raise("IndexError")
  /\ UNCHANGED <<next_urls, visited_urls, all_urls_file, images_file, concept_file, log>>

\* Line 354: requests.get raises (no connection, timeout, ...); nothing
\* catches it.
FetchRaises ==
  /\ status = "running"
  /\ next_urls # <<>>
  /\ Raise("ConnectionError")
  /\ UNCHANGED <<next_urls, visited_urls, all_urls_file, images_file, concept_file, log>>

\* One iteration whose response is falsy (a status of 400 or more).
FetchFails ==
  /\ status = "running"
  /\ next_urls # <<>>
  /\ visited_urls' = Append(visited_urls, next_urls[1])
  /\ UNCHANGED <<all_urls_file, images_file, concept_file, log>>
  /\ EndOfIteration(next_urls)

\* One iteration whose response is truthy: lines 354-391.
ProcessPage ==
  /\ status = "running"
  /\ next_urls # <<>>
  /\ next_urls[1] \in URLS
  /\ LET url == next_urls[1]
         doc == Web(url)
         visited == Append(visited_urls, url)
         title == lower(doc.title)
         default == get_default_culture_and_semantic_field(title)
         queue == append_multilingual_url(doc, default[1], next_urls, visited)
         page_images == WithColumn(WithColumn(get_captioned_images(doc),
                                              "culture", Str(default[1])),
                                   "semantic_field", Str(default[2]))
         images == overwrite_file(images_file, page_images)
         links == extract_link_concepts_and_urls(doc, url)
         italic_words == get_all_italic_words(doc)
     IN /\ visited_urls' = visited
        /\ UNCHANGED log
        /\ IF images.error # ""
           THEN /\ Raise(images.error)
                /\ next_urls' = queue
                /\ UNCHANGED <<all_urls_file, images_file, concept_file>>
           ELSE IF links.error # ""
           THEN /\ Raise(links.error)
                /\ next_urls' = queue
                /\ images_file' = images.file
                /\ UNCHANGED <<all_urls_file, concept_file>>
           ELSE \E urls \in ListOrders(links.urls), url_words \in ListOrders(links.concepts),
                   words \in ListOrders(italic_words), live \in BOOLEAN :
                  LET outgoing_links == OneColumnFrame("urls", urls)
                      page_outgoing_urls == NotIsin(outgoing_links, visited)
                      all_urls == overwrite_file(all_urls_file, page_outgoing_urls)
                      concepts == WithColumn(WithColumn(
                                    concat_and_filter_unique_values(
                                      OneColumnFrame("concepts", url_words),
                                      OneColumnFrame("concepts", words)),
                                    "culture", Str(default[1])),
                                    "semantic_field", Str(default[2]))
                      concepts_with_information ==
                        find_paragraphs_for_concepts(doc, concepts, live)
                      concepts_culture ==
                        assign_culture_and_semantic_fields_to_concepts(concepts_with_information)
                      stored == overwrite_file(concept_file, concepts_culture)
                  IN /\ images_file' = images.file
                     /\ all_urls_file' = all_urls.file
                     /\ IF stored.error # ""
                        THEN /\ Raise(stored.error)
                             /\ next_urls' = queue
                             /\ concept_file' = concept_file
                        ELSE /\ concept_file' = stored.file
                             /\ EndOfIteration(queue)

Next == QueueEmpty \/ FetchRaises \/ FetchFails \/ ProcessPage

Spec == Init /\ [][Next]_vars

(* --------------------------- store harness ---------------------------- *)

\* The rows the harness merges, as cells of concepts, culture, semantic_field.
ConceptRow(concept, culture, semantic_field) ==
  [c \in {"concepts", "culture", "semantic_field"} |->
     IF c = "concepts" THEN Str(concept)
     ELSE IF c = "culture" THEN Str(culture) ELSE Str(semantic_field)]

StoreRows ==
  {ConceptRow("sakura", "", ""), ConceptRow("sakura", "chinese", "fruit"),
   ConceptRow("bier", "german", "food")}

\* The new_contents the harness passes: up to two rows in the schema of the
\* concept table, one frame with a further column and one with fewer columns.
StoreInputs ==
  {DataFrame(CONCEPT_COLUMNS, <<>>, <<>>)}
    \cup UNION {{DataFrame(CONCEPT_COLUMNS, RangeIndex(n), rows) : rows \in [1..n -> StoreRows]}
                  : n \in 1..2}
    \cup {WithColumn(DataFrame(CONCEPT_COLUMNS, RangeIndex(1), <<ConceptRow("bier", "german", "food")>>),
                     "information", Str("in germany bier means beer.")),
          OneColumnFrame("concepts", <<"sakura", "wiesn">>)}

\* The stored tables the harness starts from.
StoreFiles ==
  {NoFile,
   CsvFile(CONCEPT_COLUMNS, <<>>),
   CsvFile(CONCEPT_COLUMNS, <<<<"bier", "german", "food">>>>),
   CsvFile(<<"concepts">>, <<<<"sakura">>>>)}

InitStore ==
  /\ concept_file \in StoreFiles
  /\ log = <<>>
  /\ next_urls = <<>>
  /\ visited_urls = <<>>
  /\ all_urls_file = NoFile
  /\ images_file = NoFile
  /\ i = 0
  /\ status = "running"
  /\ error = ""

\* One call overwrite_file(CONCEPT_FILE, new_contents); the harness records
\* the call and goes on after an exception.
StoreCall ==
  /\ Len(log) < MaxCalls
  /\ \E new_contents \in StoreInputs :
       LET result == overwrite_file(concept_file, new_contents) IN
       /\ concept_file' = result.file
       /\ log' = Append(log, [new_contents |-> new_contents, before |-> concept_file,
                              after |-> result.file, error |-> result.error])
  /\ UNCHANGED <<next_urls, visited_urls, all_urls_file, images_file, i, status, error>>

NextStore == StoreCall

SpecStore == InitStore /\ [][NextStore]_vars

(* ------------------------------- claims ------------------------------- *)

\* C1: in every state between per-page transitions (the initial state and
\* the state every completed iteration leaves) no url is both in the visited
\* set and in the active queue.
C1_VisitedDisjointFromQueue ==
  status # "raised" => \A k \in 1..Len(next_urls) : ~InSeq(next_urls[k], visited_urls)

\* The number of urls of the queue q that a step keeps at the front of the
\* queue q2 it leaves: all of q, or q without its head.
Retained(q, q2) ==
  IF Len(q2) >= Len(q) /\ SubSeq(q2, 1, Len(q)) = q THEN Len(q)
  ELSE IF q = <<>> THEN 0 ELSE Len(q) - 1

\* C2: every operation that adds a url to the active queue (seeding, the
\* interlanguage link, the refill) adds only urls that are not in the visited
\* set at that moment: the seeds meet an empty visited list, and every url a
\* step puts behind the urls it keeps is not in the visited list the step
\* leaves.
C2_AddsOnlyUnvisited ==
  /\ \A k \in 1..Len(next_urls) : ~InSeq(next_urls[k], visited_urls)
  /\ [][\A k \in (Retained(next_urls, next_urls') + 1)..Len(next_urls') :
          ~InSeq(next_urls'[k], visited_urls')]_vars

\* C2 witness: the page "German cuisine" was processed from a one-url queue
\* and its German interlanguage link, not visited, is now the queue.
C2_Witness ==
  /\ visited_urls = <<URL_GERMAN_CUISINE>>
  /\ next_urls = <<URL_DEUTSCHE_KUECHE>>
  /\ all_urls_file.lines # <<>>
  /\ status = "running"

\* C3: a run always ends normally, by using up the iteration budget or by a
\* refill that yields no urls; here: once an iteration has emptied the active
\* queue (the refill's case), the run has not ended in an exception.
C3_RunEndsNormally ==
  (visited_urls # <<>> /\ next_urls = <<>>) => (status # "raised" /\ error = "")

\* C4: an iteration whose fetch fails (the request raises, or the status is
\* not a success) leaves the persisted tables alone, adds nothing to the
\* active queue, appends the url to visited and removes it from the queue.
C4_FailedFetchIsSkipped ==
  [][(status = "running" /\ next_urls # <<>> /\ (FetchRaises \/ FetchFails)) =>
       /\ concept_file' = concept_file
       /\ images_file' = images_file
       /\ all_urls_file' = all_urls_file
       /\ visited_urls' = Append(visited_urls, next_urls[1])
       /\ next_urls' = Tail(next_urls)]_vars

\* C5: mergeAndPersist is idempotent: a call that repeats the new rows of the
\* call before it leaves the stored table as that call left it.
C5_MergeIdempotent ==
  \A k \in 2..Len(log) :
    log[k].new_contents = log[k - 1].new_contents => log[k].after = log[k - 1].after

\* The fields of a stored line in the columns wanted (header names the line's
\* columns).
Project(line, header, wanted) ==
  [j \in 1..Len(wanted) |->
     line[CHOOSE c \in 1..Len(header) : header[c] = wanted[j]]]

\* C6: after mergeAndPersist no two rows of the stored table agree on all
\* columns of the old table's schema (two tables holding "sakura" with the
\* same culture and semantic field merge into one "sakura" row).
C6_NoTwoRowsAgreeOnOldSchema ==
  \A k \in 1..Len(log) :
    (log[k].error = "" /\ log[k].before.exists) =>
      \A a, b \in 1..Len(log[k].after.lines) :
        a # b => Project(log[k].after.lines[a], log[k].after.header, log[k].before.header)
                   # Project(log[k].after.lines[b], log[k].after.header, log[k].before.header)

\* C7: the persisted concept table holds at most one row per concept surface
\* text, whatever labels the pages gave it.
C7_OneRowPerConcept ==
  \A a, b \in 1..Len(concept_file.lines) :
    a # b => concept_file.lines[a][1] # concept_file.lines[b][1]

\* C8: the first merge into an output table whose file does not exist yet
\* succeeds and stores the new rows: a run never ends because an output file
\* is missing.
C8_MissingFileIsCreated ==
  /\ error # "FileNotFoundError"
  /\ \A k \in 1..Len(log) :
       ~log[k].before.exists =>
         (log[k].error = "" /\ log[k].after = to_csv(log[k].new_contents))

SchemaDiffers(file, df) == {file.header[j] : j \in 1..Len(file.header)} # ColSet(df)

\* C9 as claimed: a mergeAndPersist call whose new rows have another column
\* set than the stored table ends in an error.
C9_SchemaMismatchRaises ==
  \A k \in 1..Len(log) :
    (log[k].before.exists /\ SchemaDiffers(log[k].before, log[k].new_contents)) =>
      log[k].error # ""

\* C9 as amended: such a call on an existing table raises nothing and writes
\* a table whose columns are the stored table's columns followed by the
\* further columns of the new rows, one field per column in every line.
C9_SchemaMismatchMerged ==
  \A k \in 1..Len(log) :
    (log[k].before.exists /\ SchemaDiffers(log[k].before, log[k].new_contents)) =>
      /\ log[k].error = ""
      /\ log[k].after.exists
      /\ log[k].after.header =
           log[k].before.header \o SeqFilterOut(log[k].new_contents.columns, log[k].before.header)
      /\ \A a \in 1..Len(log[k].after.lines) :
           Len(log[k].after.lines[a]) = Len(log[k].after.header)

\* C9 witness: a call merged new rows with a further column into a stored
\* concept table.
C9_Witness ==
  \E k \in 1..Len(log) :
    /\ log[k].before.exists
    /\ log[k].before.header = CONCEPT_COLUMNS
    /\ InSeq("information", log[k].new_contents.columns)
    /\ InSeq("information", log[k].after.header)
    /\ log[k].after.lines # <<>>

\* C10: whenever an iteration leaves the active queue empty, the queue is
\* refilled with the first min(100, length) urls of the overflow queue and
\* those entries leave the overflow queue; so (no overflow queue of the model
\* reaches 100 entries) after an iteration the active queue is never empty
\* while the overflow queue still holds entries.
C10_EmptyQueueIsRefilled ==
  ~(visited_urls # <<>> /\ next_urls = <<>> /\ all_urls_file.lines # <<>>)

\* The scheme and host of a page's url: what a browser puts in front of a
\* link of the page that starts with "/".
Origin(url) ==
  SubSeq(url, 1, (CHOOSE p \in 1..Len(url) :
                    /\ SubSeq(url, p, p + 5) = "/wiki/"
                    /\ \A q \in 1..(p - 1) : SubSeq(url, q, q + 5) # "/wiki/") - 1)

\* C11: every link a per-page transition appends to the overflow queue refers
\* to a page not yet visited in this run; a link to the page being processed
\* or to a page visited earlier is never appended.
C11_AppendedLinksUnvisited ==
  [][\A k \in 1..Len(all_urls_file'.lines) :
       ~InSeq(all_urls_file'.lines[k], all_urls_file.lines)
         => ~InSeq(Origin(next_urls[1]) \o all_urls_file'.lines[k][1], visited_urls')]_vars

\* C12: the crawl filters every page's concepts before it stores them: no
\* row of the concept table holds a concept that is a location name.
C12_NoLocationStored ==
  \A k \in 1..Len(concept_file.lines) : ~contains_location(concept_file.lines[k][1])

(* --------------------------- name harness ----------------------------- *)

\* The membership tests applied to captions of up to MaxWords words.
MaxWords == 3
MaxTests == 1

WORDS == {"leonardo", "da", "vinci", "new", "york", "newton", "cafe"}

RECURSIVE Join(_)
Join(words) ==
  IF words = <<>> THEN ""
  ELSE IF Len(words) = 1 THEN words[1]
  ELSE words[1] \o " " \o Join(Tail(words))

Captions == {Join(ws) : ws \in UNION {[1..n -> WORDS] : n \in 0..MaxWords}}

InitNames ==
  /\ next_urls = <<>>
  /\ visited_urls = <<>>
  /\ all_urls_file = NoFile
  /\ images_file = NoFile
  /\ concept_file = NoFile
  /\ i = 0
  /\ status = "running"
  /\ error = ""
  /\ log = <<>>

NameTest ==
  /\ Len(log) < MaxTests
  /\ \E caption \in Captions :
       log' = Append(log, [caption |-> caption,
                           person |-> contains_person_name(caption),
                           location |-> contains_location(caption),
                           filtering_person |-> filtering_contains_person_name(caption),
                           filtering_location |-> filtering_contains_location(caption)])
  /\ UNCHANGED <<next_urls, visited_urls, all_urls_file, images_file, concept_file, i,
                 status, error>>

NextNames == NameTest

SpecNames == InitNames /\ [][NextNames]_vars

\* Whether some entry of a reference set has all its tokens among the whole
\* tokens of text.
EntryWithAllTokens(db, text) ==
  \E n \in 1..Len(db) :
    \A k \in 1..Len(split(db[n])) :
      \E j \in 1..Len(split(text)) : split(text)[j] = split(db[n])[k]

\* C13: each of the four membership tests (person and location, crawl and
\* offline stage) is true for a text exactly when some reference entry has
\* all of its tokens among the text's whole tokens; the empty text gives
\* false.
C13_AllTokensMatch ==
  \A t \in 1..Len(log) :
    /\ log[t].person = EntryWithAllTokens(PERSON_DB, log[t].caption)
    /\ log[t].location = EntryWithAllTokens(LOCATION_DB, log[t].caption)
    /\ log[t].filtering_person = EntryWithAllTokens(PERSON_DB, log[t].caption)
    /\ log[t].filtering_location = EntryWithAllTokens(LOCATION_DB, log[t].caption)
    /\ (log[t].caption = "" =>
          ~(log[t].person \/ log[t].location \/ log[t].filtering_person
              \/ log[t].filtering_location))

\* The rows of a stored table whose first field is one of values.
LinesOf(file, values) ==
  {k \in 1..Len(file.lines) : file.lines[k][1] \in values}

\* What get_captioned_images takes from the page Oktoberfest.
OKTOBERFEST_IMAGES ==
  {get_captioned_images(PAGE_OKTOBERFEST).rows[r]["img_source"][1] :
     r \in 1..Len(get_captioned_images(PAGE_OKTOBERFEST).rows)}

MaxRows == 2
MaxParagraphs == 2

PARAGRAPHS ==
  {"The Wiesn is a fair.", "In Germany bier means beer.", "Spanish wine and German bier"}

PAGE_DEFAULTS == {<<"", "">>, <<"german", "celebration">>, <<"german", "food">>}

CONCEPT_NAMES == <<"bier", "wiesn", "sakura">>

RowLabels(n) ==
  {RangeIndex(n)} \cup {RangeIndex(m) \o RangeIndex(n - m) : m \in 1..(n - 1)}

RefineDocs ==
  {Page("", <<>>, <<>>, <<>>, <<>>, "", 0, <<>>, paragraphs) :
     paragraphs \in UNION {[1..n -> PARAGRAPHS] : n \in 0..MaxParagraphs}}

RefineInputs ==
  UNION {{DataFrame(CONCEPT_COLUMNS, index,
                    [r \in 1..n |->
                       [c \in {"concepts", "culture", "semantic_field"} |->
                          CASE c = "concepts" -> Str(CONCEPT_NAMES[r])
                            [] c = "culture" -> Str(default[1])
                            [] c = "semantic_field" -> Str(default[2])]]) :
           index \in RowLabels(n), default \in PAGE_DEFAULTS} : n \in 0..MaxRows}

InitRefine ==
  /\ next_urls = <<>>
  /\ visited_urls = <<>>
  /\ all_urls_file = NoFile
  /\ images_file = NoFile
  /\ concept_file = NoFile
  /\ i = 0
  /\ status = "running"
  /\ error = ""
  /\ log = <<>>

RefineCall ==
  /\ Len(log) < MaxTests
  /\ \E doc \in RefineDocs, concepts \in RefineInputs, live \in BOOLEAN :
       LET concepts_with_information == find_paragraphs_for_concepts(doc, concepts, live)
           concepts_culture ==
             assign_culture_and_semantic_fields_to_concepts(concepts_with_information)
       IN log' = Append(log, [doc |-> doc, concepts |-> concepts,
                              result |-> concepts_culture])
  /\ UNCHANGED <<next_urls, visited_urls, all_urls_file, images_file, concept_file, i,
                 status, error>>

NextRefine == RefineCall

SpecRefine == InitRefine /\ [][NextRefine]_vars

RECURSIVE Provenance(_, _, _)
\* A concept's provenance text: the lower-case text of the first n paragraphs
\* that contain the concept, joined by ", ".
Provenance(paragraphs, n, concept) ==
  IF n = 0 THEN ""
  ELSE LET before == Provenance(paragraphs, n - 1, concept)
           para_text == lower(paragraphs[n])
       IN IF ~Contains(para_text, concept) THEN before
          ELSE IF before = "" THEN para_text
          ELSE before \o ", " \o para_text

\* The label the claim gives a concept: that of the first keyword of the
\* lexicon, in the lexicon's order, that occurs in the provenance text, and
\* the page default if none occurs.
RefinedLabel(lexicon, provenance, default) ==
  LET hits == {k \in 1..Len(lexicon) : Contains(provenance, lexicon[k][1])}
  IN IF hits = {} THEN default
     ELSE lexicon[CHOOSE k \in hits : \A j \in hits : k <= j][2]

\* C15: after the refinement every concept carries, for culture and for
\* semantic field, the label of the first lexicon keyword that occurs in its
\* own provenance text, or the page default if none occurs, and the result
\* has no provenance column.
C15_RefinedFromOwnProvenance ==
  \A t \in 1..Len(log) :
    LET before == log[t].concepts
        after == log[t].result
        paragraphs == log[t].doc.paragraphs
    IN /\ ~InSeq("information", after.columns)
       /\ Len(after.rows) = Len(before.rows)
       /\ \A r \in 1..Len(before.rows) :
            LET provenance == Provenance(paragraphs, Len(paragraphs),
                                         before.rows[r]["concepts"][1])
            IN /\ after.rows[r]["concepts"] = before.rows[r]["concepts"]
               /\ after.rows[r]["culture"]
                    = Str(RefinedLabel(CULTURES, provenance, before.rows[r]["culture"][1]))
               /\ after.rows[r]["semantic_field"]
                    = Str(RefinedLabel(SEMANTIC_FIELDS, provenance,
                                       before.rows[r]["semantic_field"][1]))

(* --------------------------- link harness ----------------------------- *)

\* extract_link_concepts_and_urls applied to pages of up to MaxAnchors links,
\* with or without a reference section, in a language the table of line 195
\* has or lacks.
MaxAnchors == 3

ANCHORS ==
  {A(Str("/wiki/Bier"), Str("Bier")), A(Str("/wiki/Sauerkraut"), Str("Sauerkraut")),
   A(Str("/wiki/Help:Contents"), Str("Help")), A(Str("#cite_note-1"), None)}

LINK_PAGE_URLS ==
  {URL_GERMAN_CUISINE, URL_DEUTSCHE_KUECHE, "https://fr.wikipedia.org/wiki/Choucroute"}

LinkDocs ==
  UNION {{Page("", <<>>, <<>>, <<>>, anchors, IF ref_pos = 0 THEN "" ELSE "References",
               ref_pos, <<>>, <<>>) :
            anchors \in [1..n -> ANCHORS], ref_pos \in 0..n} : n \in 0..MaxAnchors}

InitLinks ==
  /\ next_urls = <<>>
  /\ visited_urls = <<>>
  /\ all_urls_file = NoFile
  /\ images_file = NoFile
  /\ concept_file = NoFile
  /\ i = 0
  /\ status = "running"
  /\ error = ""
  /\ log = <<>>

LinkCall ==
  /\ Len(log) < MaxTests
  /\ \E doc \in LinkDocs, current_url \in LINK_PAGE_URLS :
       log' = Append(log, [doc |-> doc, current_url |-> current_url,
                           result |-> extract_link_concepts_and_urls(doc, current_url)])
  /\ UNCHANGED <<next_urls, visited_urls, all_urls_file, images_file, concept_file, i,
                 status, error>>

NextLinks == LinkCall

SpecLinks == InitLinks /\ [][NextLinks]_vars

\* The number of a page's links that stand before the first anchor that
\* follows the reference section of the page's language (all of them if the
\* page has no such section).
LinksBeforeReferences(doc, current_url) ==
  IF doc.ref_id # "" /\ doc.ref_id = ReferenceId(LanguageCode(current_url))
  THEN doc.ref_pos - 1
  ELSE Len(doc.anchors)

\* C16: for a page in a supported language the returned urls are exactly the
\* targets of the content links that stand before the first anchor after the
\* reference section, and the returned concepts come from those links only;
\* without a reference section every content link counts.
C16_CutAtReferenceAnchor ==
  \A t \in 1..Len(log) :
    LET doc == log[t].doc
        result == log[t].result
        n == LinksBeforeReferences(doc, log[t].current_url)
        kept == {k \in 1..n : IsContentLink(doc.anchors[k].href)}
    IN (ReferenceId(LanguageCode(log[t].current_url)) # "" /\ result.error = "")
         => /\ {result.urls[k] : k \in 1..Len(result.urls)}
                 = {doc.anchors[k].href[1] : k \in kept}
            /\ \A c \in 1..Len(result.concepts) :
                 \E k \in kept : result.concepts[c] = lower(doc.anchors[k].title[1])

\* C17: within one run no url is fetched more than once: the visited list
\* never holds the same url twice.
C17_NoUrlFetchedTwice ==
  \A a, b \in 1..Len(visited_urls) : a # b => visited_urls[a] # visited_urls[b]

====
